---- MODULE Spec2Model ----
(***************************************************************************)
(* Transparent-video converter: the React client (App.tsx, FileUpload,     *)
(* services/api) talking to the conversion backend, and the in-browser     *)
(* ffmpeg worker (ffmpeg-worker.js).  The client and the ffmpeg worker are *)
(* modelled from their source; the backend (Flask API + Celery worker)     *)
(* lives in backend/, and is modelled from the specification and the       *)
(* README's API description.  The voting page of the projection demo       *)
(* (script.js in implementation_plan.md) and the performance utilities     *)
(* (utils/performance.ts) are modelled from their source.                  *)
(***************************************************************************)
EXTENDS Integers, Sequences, FiniteSets, TLC

(* ------------------------------ bounds -------------------------------- *)
\* files in one selection of the conversion runs
MaxSel == 2
\* file identifiers the backend hands out in the conversion runs
MaxFileIds == 2
\* tasks the backend creates in the conversion runs
MaxTasks == 2
\* coarse progress phases a RUNNING task reports (0 .. MaxProgress)
MaxProgress == 2
\* status-poll rounds in flight at the same time
MaxRounds == 2
\* files beyond the batch limit in one selection of the upload runs
BatchExtra == 1
\* status-poll rounds in flight at the same time in the fair runs
LiveRounds == 1
\* messages the ffmpeg worker receives in one run
MaxCalls == 2
\* files and tasks of the status runs
StatusTasks == 1
\* files and tasks of the download runs
DownloadTasks == 2
\* files and tasks of the lease runs
LeaseTasks == 1
\* times the worker of one task crashes in the lease runs
MaxCrashes == 2
\* files and tasks of the removal runs
RemoveTasks == 2
\* refresh timers of the voting page pending at the same time
VoteTimers == 1
\* votes one video collects in the voting runs
VoteCount == 1
\* videos in the folder of the card runs
CardVideos == 2
\* candidates one directory scan probes in the scan runs
ScanIndex == 2
\* directory scans in flight at the same time
MaxScans == 2
\* values one metric records beyond the number the monitor keeps
PerfExtra == 2
\* runs of the wrapped function of the throttle runs
ThrottleRuns == 6

(* ------------------------- program constants -------------------------- *)
\* <FileUpload maxFiles={10} .../>
maxFiles == 10
\* <FileUpload maxSizeMB={50} .../>
maxSizeMB == 50

\* voting page: if (selectedSet.size >= 3)
selectLimit == 3
\* voting page: list.slice(0, Math.min(20, list.length))
batchLimit == 20
\* PerformanceMonitor: if (values.length > 100)
maxPoints == 100

maxSizeBytes == maxSizeMB * 1024 * 1024

allowedTypes == {"video/mp4", "video/quicktime", "video/webm"}

\* identifiers the backend hands out in the upload runs
UploadIdCap == maxFiles + BatchExtra

(* ------------------------------ helpers -------------------------------- *)
SeqMap(Op(_), s) == [i \in 1..Len(s) |-> Op(s[i])]

Active(status) == status \in {"PENDING", "RUNNING"}

Terminal(status) == status \in {"SUCCESS", "FAILED"}

\* position of a status along PENDING -> RUNNING -> {SUCCESS | FAILED}
Rank(status) ==
  CASE status = "PENDING" -> 0
    [] status = "RUNNING" -> 1
    [] OTHER -> 2

VARIABLES
  files,       \* App: useState<FileProcessingState[]>
  uploading,   \* App: useState(false)
  converting,  \* App: useState(false)
  uploadReq,   \* the POST /upload of handleFilesSelected, while in flight
  convertReq,  \* the POST /convert of handleStartConvert, while in flight
  rounds,      \* the pollTaskStatus calls in flight, oldest first
  store,       \* backend: task store, taskId = index
  nextFileId,  \* backend: next fileId to hand out
  downloadReq, \* the POST /batch-download of handleBatchDownload, while in flight
  leases,      \* backend: the worker and the lease of every claimed task
  ffmpeg,      \* ffmpeg-worker: let ffmpeg (0 = undefined, else an engine instance)
  ffReady,     \* ffmpeg-worker: let ffReady
  engines,     \* ffmpeg-worker: the engine instances createFFmpeg has made
  calls,       \* ffmpeg-worker: the onmessage invocations, in order of arrival
  posted,      \* ffmpeg-worker: the messages posted back, oldest first
  booted,        \* voting page: DOMContentLoaded has been handled
  ALL_VIDEOS,    \* voting page: let ALL_VIDEOS
  currentBatch,  \* voting page: let currentBatch
  selectedSet,   \* voting page: let selectedSet
  cards,         \* voting page: the cards of #video-grid, by their video
  voteData,      \* voting page: localStorage[STORAGE_KEY]
  scans,         \* voting page: the scanLocalVideos calls in flight
  refreshTimers, \* voting page: pending setTimeout(displayRandomVideos, 600)
  metrics,        \* PerformanceMonitor: private metrics
  inThrottle,     \* throttle: let inThrottle of one throttled function
  throttleTimers, \* throttle: pending setTimeout(() => inThrottle = false, limit)
  funcRuns        \* throttle: the argument lists func has been applied to

\* the state of the in-browser ffmpeg worker
wasmVars == <<ffmpeg, ffReady, engines, calls, posted>>

\* the state of the voting page
voteVars == <<booted, ALL_VIDEOS, currentBatch, selectedSet, cards, voteData, scans,
             refreshTimers>>

\* the state of the performance utilities
perfVars == <<metrics, inThrottle, throttleTimers, funcRuns>>

vars == <<files, uploading, converting, uploadReq, convertReq, rounds, store, nextFileId,
          downloadReq, leases, wasmVars, voteVars, perfVars>>

Idle == [phase |-> "idle"]

\* no task has been claimed yet
NoLeases == [t \in {} |-> 0]

\* an empty #video-grid
NoCards == [v \in {} |-> 0]

\* localStorage.getItem of a key that is not stored
Null == [kind |-> "null"]

\* new Map()
NoMetrics == [name \in {} |-> <<>>]

\* the web page and the backend
pageVars == <<files, uploading, converting, uploadReq, convertReq, rounds, store, nextFileId,
              downloadReq, leases>>

(* --------------------- utils: file validation ------------------------- *)
validateFileType(file) == file.type \in allowedTypes

validateFileSize(file, maxMB) == file.size <= maxMB * 1024 * 1024

(* ------------------------- FileUpload component ----------------------- *)
\* beforeUpload(file, files): every branch returns false ("false" here);
\* the branches differ in the message shown only.
beforeUpload(file, batch, fileListLen) ==
  IF ~validateFileType(file) THEN [ret |-> "false", msg |-> "type"]
  ELSE IF ~validateFileSize(file, maxSizeMB) THEN [ret |-> "false", msg |-> "size"]
  ELSE IF fileListLen + Len(batch) > maxFiles THEN [ret |-> "false", msg |-> "count"]
  ELSE [ret |-> "false", msg |-> ""]

\* The Upload widget keeps a file in its list unless beforeUpload answers
\* LIST_IGNORE; false only stops the widget's own automatic upload.
KeptInList(ret) == ret # "LIST_IGNORE"

\* onChange: info.fileList filtered to the entries with an originFileObj
onChangeFiles(batch) ==
  SelectSeq(batch, LAMBDA f : KeptInList(beforeUpload(f, batch, 0).ret))

(* ----------------------- backend: validation -------------------------- *)
\* the count check with the limit off by one
ExceedsCountOffByOne(n) == n > maxFiles + 1

\* upload and convert both validate the batch size (MAX_FILES_PER_BATCH)
ExceedsCount(n) == n > maxFiles

UploadCheck(sel) ==
  IF ExceedsCount(Len(sel)) THEN "LIMIT_EXCEEDED_COUNT"
  ELSE IF \E i \in 1..Len(sel) : sel[i].type \notin allowedTypes THEN "UNSUPPORTED_FORMAT"
  ELSE IF \E i \in 1..Len(sel) : sel[i].size > maxSizeBytes THEN "LIMIT_EXCEEDED_SIZE"
  ELSE "OK"

FileKnown(f) ==
  /\ f \in 1..(nextFileId - 1)
  /\ \A t \in 1..Len(store) : store[t].fileId = f => store[t].status # "EXPIRED"

HasActiveTask(f) ==
  \E t \in 1..Len(store) : store[t].fileId = f /\ Active(store[t].status)

ConvertCheck(ids) ==
  IF ExceedsCount(Len(ids)) THEN "LIMIT_EXCEEDED_COUNT"
  ELSE IF \E i \in 1..Len(ids) : ~FileKnown(ids[i]) THEN "NOT_FOUND"
  ELSE IF \E i \in 1..Len(ids) : HasActiveTask(ids[i]) THEN "TASK_ACTIVE"
  ELSE "OK"

NewTask(f) == [fileId |-> f, status |-> "PENDING", progress |-> 0]

\* status(taskId): the snapshot of a task the store holds
Snapshot(t) ==
  [taskId |-> t,
   status |-> store[t].status,
   progress |-> store[t].progress,
   resultUrl |-> IF store[t].status = "SUCCESS" THEN t ELSE 0,
   errorMessage |-> IF store[t].status = "FAILED" THEN t ELSE 0]

TaskFound(t) == t \in 1..Len(store) /\ store[t].status # "EXPIRED"

\* a status handler that hands the snapshot of a finished task out once and
\* then drops the task
StatusReadOnce(ids) ==
  store' = [t \in 1..Len(store) |->
              IF t \in ids /\ Terminal(store[t].status)
                THEN [store[t] EXCEPT !.status = "EXPIRED"]
                ELSE store[t]]

\* what GET /api/status for the tasks ids does to the store: it reads
StatusRead(ids) == store' = store

(* ------------------------------- Init ---------------------------------- *)
Init ==
  /\ files = <<>>
  /\ uploading = FALSE
  /\ converting = FALSE
  /\ uploadReq = Idle
  /\ convertReq = Idle
  /\ rounds = <<>>
  /\ store = <<>>
  /\ nextFileId = 1
  /\ downloadReq = Idle
  /\ leases = NoLeases
  /\ ffmpeg = 0
  /\ ffReady = FALSE
  /\ engines = <<>>
  /\ calls = <<>>
  /\ posted = <<>>
  /\ booted = FALSE
  /\ ALL_VIDEOS = <<>>
  /\ currentBatch = <<>>
  /\ selectedSet = {}
  /\ cards = NoCards
  /\ voteData = Null
  /\ scans = <<>>
  /\ refreshTimers = 0
  /\ metrics = NoMetrics
  /\ inThrottle = FALSE
  /\ throttleTimers = 0
  /\ funcRuns = <<>>

(* ----------------------- App: handleFilesSelected --------------------- *)
\* the Upload widget's onChange hands the kept files to handleFilesSelected
SelectFiles(batch, idCap) ==
  LET selectedFiles == onChangeFiles(batch) IN
  /\ ~uploading
  /\ uploadReq = Idle
  /\ UploadCheck(selectedFiles) = "OK" => nextFileId + Len(selectedFiles) - 1 <= idCap
  /\ IF Len(selectedFiles) = 0
       THEN /\ files' = <<>>
            /\ UNCHANGED <<uploading, uploadReq>>
       ELSE /\ uploading' = TRUE
            /\ uploadReq' = [phase |-> "sent", sel |-> selectedFiles]
            /\ UNCHANGED files
  /\ UNCHANGED <<converting, convertReq, rounds, store, nextFileId>>
  /\ UNCHANGED <<downloadReq, leases, wasmVars, voteVars, perfVars>>

\* backend: POST /api/upload
UploadRespond ==
  /\ uploadReq.phase = "sent"
  /\ LET code == UploadCheck(uploadReq.sel)
         n == Len(uploadReq.sel) IN
       IF code = "OK"
         THEN /\ uploadReq' = [phase |-> "ok",
                               fileIds |-> [i \in 1..n |-> nextFileId + i - 1]]
              /\ nextFileId' = nextFileId + n
         ELSE /\ uploadReq' = [phase |-> "err", code |-> code]
              /\ UNCHANGED nextFileId
  /\ UNCHANGED <<files, uploading, converting, convertReq, rounds, store>>
  /\ UNCHANGED <<downloadReq, leases, wasmVars, voteVars, perfVars>>

NewFile(fileId) ==
  [fileId |-> fileId, taskId |-> 0, status |-> "PENDING", progress |-> 0,
   resultUrl |-> 0, error |-> 0]

\* handleFilesSelected after the await
UploadDone ==
  /\ uploadReq.phase \in {"ok", "err"}
  /\ files' = IF uploadReq.phase = "ok" THEN SeqMap(NewFile, uploadReq.fileIds) ELSE files
  /\ uploading' = FALSE
  /\ uploadReq' = Idle
  /\ UNCHANGED <<converting, convertReq, rounds, store, nextFileId>>
  /\ UNCHANGED <<downloadReq, leases, wasmVars, voteVars, perfVars>>

(* ----------------------- App: handleStartConvert ---------------------- *)
canStartConvert ==
  /\ Len(files) > 0
  /\ ~converting
  /\ ~\E i \in 1..Len(files) : files[i].status = "RUNNING"

StartConvert(taskCap) ==
  /\ canStartConvert
  /\ convertReq = Idle
  /\ Len(store) + Len(files) <= taskCap
  /\ converting' = TRUE
  /\ convertReq' = [phase |-> "sent", fileIds |-> [i \in 1..Len(files) |-> files[i].fileId]]
  /\ UNCHANGED <<files, uploading, uploadReq, rounds, store, nextFileId>>
  /\ UNCHANGED <<downloadReq, leases, wasmVars, voteVars, perfVars>>

\* backend: POST /api/convert
ConvertRespond ==
  /\ convertReq.phase = "sent"
  /\ LET ids == convertReq.fileIds
         code == ConvertCheck(ids)
         n == Len(ids) IN
       IF code = "OK"
         THEN /\ store' = store \o SeqMap(NewTask, ids)
              /\ convertReq' = [phase |-> "ok",
                                taskIds |-> [i \in 1..n |-> Len(store) + i]]
         ELSE /\ convertReq' = [phase |-> "err", code |-> code]
              /\ UNCHANGED store
  /\ UNCHANGED <<files, uploading, converting, uploadReq, rounds, nextFileId>>
  /\ UNCHANGED <<downloadReq, leases, wasmVars, voteVars, perfVars>>

Started(file, index, taskIds) ==
  [file EXCEPT !.taskId = IF index <= Len(taskIds) THEN taskIds[index] ELSE 0,
               !.status = "RUNNING",
               !.progress = 0]

\* handleStartConvert after the await
ConvertDone ==
  /\ convertReq.phase \in {"ok", "err"}
  /\ files' = IF convertReq.phase = "ok"
                THEN [i \in 1..Len(files) |-> Started(files[i], i, convertReq.taskIds)]
                ELSE files
  /\ converting' = FALSE
  /\ convertReq' = Idle
  /\ UNCHANGED <<uploading, uploadReq, rounds, store, nextFileId>>
  /\ UNCHANGED <<downloadReq, leases, wasmVars, voteVars, perfVars>>

(* ------------------------ backend: worker ------------------------------ *)
\* PENDING -> RUNNING on dequeue
WorkerClaim(t) ==
  /\ t \in 1..Len(store)
  /\ store[t].status = "PENDING"
  /\ store' = [store EXCEPT ![t].status = "RUNNING"]
  /\ UNCHANGED <<files, uploading, converting, uploadReq, convertReq, rounds, nextFileId>>
  /\ UNCHANGED <<downloadReq, leases, wasmVars, voteVars, perfVars>>

\* progress at a phase boundary
WorkerProgress(t) ==
  /\ t \in 1..Len(store)
  /\ store[t].status = "RUNNING"
  /\ store[t].progress < MaxProgress
  /\ store' = [store EXCEPT ![t].progress = @ + 1]
  /\ UNCHANGED <<files, uploading, converting, uploadReq, convertReq, rounds, nextFileId>>
  /\ UNCHANGED <<downloadReq, leases, wasmVars, voteVars, perfVars>>

\* RUNNING -> SUCCESS | FAILED
WorkerFinish(t, outcome) ==
  /\ t \in 1..Len(store)
  /\ store[t].status = "RUNNING"
  /\ store' = [store EXCEPT ![t].status = outcome]
  /\ UNCHANGED <<files, uploading, converting, uploadReq, convertReq, rounds, nextFileId>>
  /\ UNCHANGED <<downloadReq, leases, wasmVars, voteVars, perfVars>>

\* retention sweep: the task and its file expire
Sweep(t) ==
  /\ t \in 1..Len(store)
  /\ Terminal(store[t].status)
  /\ store' = [store EXCEPT ![t].status = "EXPIRED"]
  /\ UNCHANGED <<files, uploading, converting, uploadReq, convertReq, rounds, nextFileId>>
  /\ UNCHANGED <<downloadReq, leases, wasmVars, voteVars, perfVars>>

(* --------------------- backend: leases and supervisor ------------------ *)
\* worker: none | alive | crashed; expired: the lease deadline has passed
\* with no progress update; crashes and requeues count the task's history
NoLease == [worker |-> "none", expired |-> FALSE, crashes |-> 0, requeues |-> 0]

LeaseOf(t) == IF t \in DOMAIN leases THEN leases[t] ELSE NoLease

SetLease(t, lease) ==
  [x \in DOMAIN leases \cup {t} |-> IF x = t THEN lease ELSE leases[x]]

\* PENDING -> RUNNING on dequeue: the worker takes the lease
LeaseClaim(t) ==
  /\ t \in 1..Len(store)
  /\ store[t].status = "PENDING"
  /\ store' = [store EXCEPT ![t].status = "RUNNING"]
  /\ leases' = SetLease(t, [LeaseOf(t) EXCEPT !.worker = "alive", !.expired = FALSE])
  /\ UNCHANGED <<files, uploading, converting, uploadReq, convertReq, rounds, nextFileId,
                 downloadReq, wasmVars, voteVars, perfVars>>

\* a progress update of the live worker, which renews the lease
LeaseProgress(t) ==
  /\ t \in 1..Len(store)
  /\ store[t].status = "RUNNING"
  /\ LeaseOf(t).worker = "alive"
  /\ store[t].progress < MaxProgress
  /\ store' = [store EXCEPT ![t].progress = @ + 1]
  /\ UNCHANGED <<files, uploading, converting, uploadReq, convertReq, rounds, nextFileId,
                 downloadReq, leases, wasmVars, voteVars, perfVars>>

\* RUNNING -> SUCCESS | FAILED by the live worker
LeaseFinish(t, outcome) ==
  /\ t \in 1..Len(store)
  /\ store[t].status = "RUNNING"
  /\ LeaseOf(t).worker = "alive"
  /\ store' = [store EXCEPT ![t].status = outcome]
  /\ leases' = SetLease(t, [LeaseOf(t) EXCEPT !.worker = "none"])
  /\ UNCHANGED <<files, uploading, converting, uploadReq, convertReq, rounds, nextFileId,
                 downloadReq, wasmVars, voteVars, perfVars>>

\* the worker crashes while its task is RUNNING
Crash(t) ==
  /\ t \in 1..Len(store)
  /\ store[t].status = "RUNNING"
  /\ LeaseOf(t).worker = "alive"
  /\ LeaseOf(t).crashes < MaxCrashes
  /\ leases' = SetLease(t, [LeaseOf(t) EXCEPT !.worker = "crashed", !.crashes = @ + 1])
  /\ UNCHANGED <<files, uploading, converting, uploadReq, convertReq, rounds, store,
                 nextFileId, downloadReq, wasmVars, voteVars, perfVars>>

\* the lease deadline of an orphaned task passes with no progress update (a
\* live worker reports progress before its lease runs out)
LeaseExpire(t) ==
  /\ t \in 1..Len(store)
  /\ store[t].status = "RUNNING"
  /\ LeaseOf(t).worker = "crashed"
  /\ ~LeaseOf(t).expired
  /\ leases' = SetLease(t, [LeaseOf(t) EXCEPT !.expired = TRUE])
  /\ UNCHANGED <<files, uploading, converting, uploadReq, convertReq, rounds, store,
                 nextFileId, downloadReq, wasmVars, voteVars, perfVars>>

\* a supervisor that re-enqueues the task and leaves its record RUNNING
LeaseSweepKeepsRunning(t) ==
  /\ t \in 1..Len(store)
  /\ store[t].status = "RUNNING"
  /\ LeaseOf(t).expired
  /\ LeaseOf(t).requeues <= MaxCrashes
  /\ leases' = SetLease(t, [LeaseOf(t) EXCEPT !.requeues = @ + 1])
  /\ UNCHANGED <<files, uploading, converting, uploadReq, convertReq, rounds, store,
                 nextFileId, downloadReq, wasmVars, voteVars, perfVars>>

\* the supervisory sweep: a task RUNNING past its deadline goes back to
\* PENDING and is re-enqueued
LeaseSweep(t) ==
  /\ t \in 1..Len(store)
  /\ store[t].status = "RUNNING"
  /\ LeaseOf(t).expired
  /\ store' = [store EXCEPT ![t].status = "PENDING"]
  /\ leases' = SetLease(t, [LeaseOf(t) EXCEPT !.worker = "none", !.expired = FALSE,
                                               !.requeues = @ + 1])
  /\ UNCHANGED <<files, uploading, converting, uploadReq, convertReq, rounds, nextFileId,
                 downloadReq, wasmVars, voteVars, perfVars>>

(* ------------------------- App: pollTaskStatus ------------------------ *)
activeTasks ==
  {files[i].taskId : i \in {j \in 1..Len(files) : files[j].taskId # 0 /\ Active(files[j].status)}}

\* the interval fires: one getTaskStatus request per active task
PollStart(maxRounds) ==
  /\ activeTasks # {}
  /\ Len(rounds) < maxRounds
  /\ rounds' = Append(rounds, [phase |-> "sent", ids |-> activeTasks])
  /\ UNCHANGED <<files, uploading, converting, uploadReq, convertReq, store, nextFileId>>
  /\ UNCHANGED <<downloadReq, leases, wasmVars, voteVars, perfVars>>

RemoveAt(s, k) == [i \in 1..(Len(s) - 1) |-> IF i < k THEN s[i] ELSE s[i + 1]]

\* getTaskStatus throws when the backend answers with an error
PollAllOk(ids) == \A t \in ids : TaskFound(t)

\* Promise.all over the requests of round k: all snapshots, or a rejection
\* that the catch block logs
PollRespond(k) ==
  /\ k \in 1..Len(rounds)
  /\ rounds[k].phase = "sent"
  /\ rounds' = IF PollAllOk(rounds[k].ids)
                 THEN [rounds EXCEPT ![k] =
                         [phase |-> "resolved",
                          res |-> {Snapshot(t) : t \in rounds[k].ids}]]
                 ELSE RemoveAt(rounds, k)
  /\ StatusRead(rounds[k].ids)
  /\ UNCHANGED <<files, uploading, converting, uploadReq, convertReq, nextFileId>>
  /\ UNCHANGED <<downloadReq, leases, wasmVars, voteVars, perfVars>>

\* a || b on optional values: 0 stands for undefined (and for progress 0)
OrElse(a, b) == IF a # 0 THEN a ELSE b

\* a map that takes a result for every entry, whatever its taskId
PolledAny(file, statusResults) ==
  IF statusResults # {}
    THEN LET statusResult == CHOOSE s \in statusResults : TRUE IN
         [file EXCEPT !.status = statusResult.status,
                      !.progress = OrElse(statusResult.progress, file.progress),
                      !.resultUrl = OrElse(statusResult.resultUrl, file.resultUrl),
                      !.error = OrElse(statusResult.errorMessage, file.error)]
    ELSE file

Polled(file, statusResults) ==
  IF \E s \in statusResults : s.taskId = file.taskId
    THEN LET statusResult == CHOOSE s \in statusResults : s.taskId = file.taskId IN
         [file EXCEPT !.status = statusResult.status,
                      !.progress = OrElse(statusResult.progress, file.progress),
                      !.resultUrl = OrElse(statusResult.resultUrl, file.resultUrl),
                      !.error = OrElse(statusResult.errorMessage, file.error)]
    ELSE file

\* setFiles(prevFiles => prevFiles.map(...)) with the results of round k
PollApply(k) ==
  /\ k \in 1..Len(rounds)
  /\ rounds[k].phase = "resolved"
  /\ files' = [i \in 1..Len(files) |-> Polled(files[i], rounds[k].res)]
  /\ rounds' = RemoveAt(rounds, k)
  /\ UNCHANGED <<uploading, converting, uploadReq, convertReq, store, nextFileId>>
  /\ UNCHANGED <<downloadReq, leases, wasmVars, voteVars, perfVars>>

(* ---------------- App: handleRemoveFile, handleClearAll ---------------- *)
\* setFiles(prevFiles => prevFiles.filter(f => f.file.fileId !== fileId)),
\* from the remove button of a listed file
RemoveFile(fileId) ==
  /\ \E i \in 1..Len(files) : files[i].fileId = fileId
  /\ files' = SelectSeq(files, LAMBDA f : f.fileId # fileId)
  /\ UNCHANGED <<uploading, converting, uploadReq, convertReq, rounds, store, nextFileId>>
  /\ UNCHANGED <<downloadReq, leases, wasmVars, voteVars, perfVars>>

\* setFiles([]), from the clear button that is shown while files are listed
ClearAll ==
  /\ Len(files) > 0
  /\ files' = <<>>
  /\ UNCHANGED <<uploading, converting, uploadReq, convertReq, rounds, store, nextFileId>>
  /\ UNCHANGED <<downloadReq, leases, wasmVars, voteVars, perfVars>>

(* ----------------------- App: handleBatchDownload ---------------------- *)
hasSuccessfulFiles == \E i \in 1..Len(files) : files[i].status = "SUCCESS"

\* files.filter(f => f.status === 'SUCCESS' && f.taskId).map(f => f.taskId!)
\* with taskId only
unfilteredTasks ==
  LET kept == SelectSeq(files, LAMBDA f : f.taskId # 0) IN
  [i \in 1..Len(kept) |-> kept[i].taskId]

\* files.filter(f => f.status === 'SUCCESS' && f.taskId).map(f => f.taskId!)
successfulTasks ==
  LET kept == SelectSeq(files, LAMBDA f : f.status = "SUCCESS" /\ f.taskId # 0) IN
  [i \in 1..Len(kept) |-> kept[i].taskId]

\* a click on the download button, shown while hasSuccessfulFiles: the
\* warning, or the POST /batch-download
BatchDownload ==
  /\ hasSuccessfulFiles
  /\ downloadReq = Idle
  /\ downloadReq' = IF Len(successfulTasks) = 0
                      THEN Idle
                      ELSE [phase |-> "sent", taskIds |-> successfulTasks]
  /\ UNCHANGED <<files, uploading, converting, uploadReq, convertReq, rounds, store,
                 nextFileId, leases, wasmVars, voteVars, perfVars>>

\* backend: POST /api/batch-download packs the results of the tasks in SUCCESS
DownloadRespond ==
  /\ downloadReq.phase = "sent"
  /\ LET packed == {t \in {downloadReq.taskIds[i] : i \in 1..Len(downloadReq.taskIds)} :
                      TaskFound(t) /\ store[t].status = "SUCCESS"} IN
       downloadReq' = IF packed = {}
                        THEN [phase |-> "err"]
                        ELSE [phase |-> "ok", packed |-> packed]
  /\ UNCHANGED <<files, uploading, converting, uploadReq, convertReq, rounds, store,
                 nextFileId, leases, wasmVars, voteVars, perfVars>>

\* handleBatchDownload after the await: downloadBlob, or the error message
DownloadDone ==
  /\ downloadReq.phase \in {"ok", "err"}
  /\ downloadReq' = Idle
  /\ UNCHANGED <<files, uploading, converting, uploadReq, convertReq, rounds, store,
                 nextFileId, leases, wasmVars, voteVars, perfVars>>

(* --------------------------- ffmpeg-worker.js -------------------------- *)
\* an object has the property f
Has(obj, f) == f \in DOMAIN obj

Min(a, b) == IF a <= b THEN a ELSE b

Max(a, b) == IF a >= b THEN a ELSE b

\* obj.f || dflt for a numeric option: undefined and 0 are falsy
NumOr(obj, f, dflt) == IF Has(obj, f) /\ obj[f] # 0 THEN obj[f] ELSE dflt

\* a colour string: an optional '#' and its other characters, each a hex
\* digit 0..15 or NotHex
NotHex == 16

Black == [hash |-> TRUE, digits |-> <<0, 0, 0, 0, 0, 0>>]

\* /^#?([a-f\d]{2})([a-f\d]{2})([a-f\d]{2})$/i and parseInt(.., 16)
hexToRgbObj(hex) ==
  IF Len(hex.digits) = 6 /\ \A i \in 1..6 : hex.digits[i] \in 0..15
    THEN [r |-> 16 * hex.digits[1] + hex.digits[2],
          g |-> 16 * hex.digits[3] + hex.digits[4],
          b |-> 16 * hex.digits[5] + hex.digits[6]]
    ELSE [r |-> 0, g |-> 0, b |-> 0]

\* n.toString(16).padStart(2, '0'), as hex digits
Hex2(n) == <<n \div 16, n % 16>>

\* the argument list kept in one array of the worker that every invocation
\* pushes to
colorKeyArgsShared(fileName, settings) ==
  LET rgb == hexToRgbObj(IF Has(settings, "color") THEN settings.color ELSE Black)
      tol == Min(100, Max(0, NumOr(settings, "tolerance", 50)))
      targetColor == Hex2(rgb.r) \o Hex2(rgb.g) \o Hex2(rgb.b)
      built == {c \in 1..Len(calls) : calls[c].args # <<>>}
      earlier == IF built = {} THEN <<>>
                 ELSE calls[CHOOSE c \in built : \A d \in built : d <= c].args
  IN earlier \o
     <<"-i", fileName,
       "-vf", <<[filter |-> "colorkey", color |-> targetColor,
                 similarity |-> tol, blend |-> 10]>>,
       "-c:v", "libvpx-vp9", "-b:v", "1.8M", "-pix_fmt", "yuva420p", "-an", "out.webm">>

\* the engine argument list of runFFmpegColorKey.  The -vf argument is the
\* filter chain, one record per stage; similarity and blend are in
\* hundredths (tolerance is a whole number), settings.feather in tenths.
colorKeyArgs(fileName, settings) ==
  LET rgb == hexToRgbObj(IF Has(settings, "color") THEN settings.color ELSE Black)
      tol == Min(100, Max(0, NumOr(settings, "tolerance", 50)))
      feather == Max(0, NumOr(settings, "feather", 0))
      targetColor == Hex2(rgb.r) \o Hex2(rgb.g) \o Hex2(rgb.b)
  IN <<"-i", fileName,
       "-vf", <<[filter |-> "colorkey", color |-> targetColor,
                 similarity |-> tol, blend |-> 10]>>,
       "-c:v", "libvpx-vp9",
       "-b:v", "1.8M",
       "-pix_fmt", "yuva420p",
       "-an",
       "out.webm">>

\* the content of a file of the engine's file system: the input buffer it
\* derives from and the filter chain applied to it
NoData == [from |-> 0, vf |-> <<>>]

\* createFFmpeg(...): an instance that is not loaded, with an empty FS
NewEngine == [loaded |-> FALSE, busy |-> FALSE, fs |-> [n \in {} |-> NoData]]

\* ff.FS('writeFile', name, data)
WriteFile(fs, name, data) ==
  [n \in DOMAIN fs \cup {name} |-> IF n = name THEN data ELSE fs[n]]

\* one invocation of self.onmessage; runs counts its calls of ff.run
NewCall(data) ==
  [data |-> data, pc |-> "done", ff |-> 0, created |-> 0, fileName |-> "",
   args |-> <<>>, src |-> NoData, runs |-> 0]

Reply(c, type, buffer, message) ==
  [to |-> c, type |-> type, buffer |-> buffer, message |-> message]

InFlight == {c \in 1..Len(calls) : calls[c].pc # "done"}

\* a catch block that swallows the error
CatchSilent(c, cs, eng, message) ==
  /\ calls' = [cs EXCEPT ![c].pc = "done"]
  /\ posted' = posted
  /\ engines' = eng

\* catch (err) { self.postMessage({ type: 'error', ... }) } in invocation c
Catch(c, cs, eng, message) ==
  /\ calls' = [cs EXCEPT ![c].pc = "done"]
  /\ posted' = Append(posted, Reply(c, "error", NoData, message))
  /\ engines' = eng

\* invocation c after ensureFFmpeg has returned instance ff, up to its next
\* await: the reply of a probe, or writeFile, the argument list and ff.run
\* of a convert.  FS on an instance that is not loaded throws, and so does
\* run on an instance that is running a command.
Proceed(c, cs, eng, ff) ==
  LET data == cs[c].data IN
  IF data.type = "probe"
    THEN /\ calls' = [cs EXCEPT ![c].pc = "done", ![c].ff = ff]
         /\ posted' = Append(posted, Reply(c, "probe:ok", NoData, ""))
         /\ engines' = eng
    ELSE LET payload == data.payload
             fileName == IF Has(payload, "fileName") THEN payload.fileName ELSE "input.mp4"
             settings == IF Has(payload, "settings") THEN payload.settings ELSE [f \in {} |-> 0]
             inputU8 == [from |-> c, vf |-> <<>>]
             held == [cs EXCEPT ![c].ff = ff, ![c].fileName = fileName]
         IN IF ~eng[ff].loaded
              THEN Catch(c, held, eng, "FS")
              ELSE LET written == [eng EXCEPT ![ff].fs = WriteFile(@, fileName, inputU8)] IN
                   IF written[ff].busy
                     THEN Catch(c, [held EXCEPT ![c].args = colorKeyArgs(fileName, settings),
                                                ![c].runs = @ + 1],
                                written, "run")
                     ELSE /\ calls' = [held EXCEPT ![c].pc = "run",
                                                   ![c].args = colorKeyArgs(fileName, settings),
                                                   ![c].src = inputU8,
                                                   ![c].runs = @ + 1]
                          /\ posted' = posted
                          /\ engines' = [written EXCEPT ![ff].busy = TRUE]

\* a message arrives: self.onmessage up to its first await that suspends.
\* importScripts throws or not (imported: the UMD build came and exposes
\* createFFmpeg).
OnMessage(data, imported, maxCalls, maxInFlight) ==
  LET c == Len(calls) + 1
      cs == Append(calls, NewCall(data))
      type == IF Has(data, "type") THEN data.type ELSE "undefined" IN
  /\ Len(calls) < maxCalls
  /\ Cardinality(InFlight) < maxInFlight
  /\ IF type \notin {"probe", "convert"}
       THEN /\ calls' = cs
            /\ UNCHANGED <<ffmpeg, ffReady, engines, posted>>
       ELSE IF type = "convert" /\ ~Has(data, "payload")
         THEN /\ Catch(c, cs, engines, "TypeError")
              /\ UNCHANGED <<ffmpeg, ffReady>>
       ELSE IF ffReady
         THEN /\ Proceed(c, cs, engines, ffmpeg)
              /\ UNCHANGED <<ffmpeg, ffReady>>
       ELSE IF ~imported
         THEN /\ Catch(c, cs, engines, "import")
              /\ UNCHANGED <<ffmpeg, ffReady>>
       ELSE /\ ffmpeg' = Len(engines) + 1
            /\ engines' = Append(engines, NewEngine)
            /\ calls' = [cs EXCEPT ![c].pc = "load", ![c].created = Len(engines) + 1]
            /\ UNCHANGED <<ffReady, posted>>
  /\ UNCHANGED <<pageVars, voteVars, perfVars>>

\* await ffmpeg.load() of invocation c settles; ensureFFmpeg sets ffReady and
\* returns the ffmpeg variable as it is now
LoadDone(c, loaded) ==
  /\ c \in 1..Len(calls)
  /\ calls[c].pc = "load"
  /\ IF loaded
       THEN /\ ffReady' = TRUE
            /\ Proceed(c, calls, [engines EXCEPT ![calls[c].created].loaded = TRUE], ffmpeg)
       ELSE /\ Catch(c, calls, engines, "load")
            /\ UNCHANGED ffReady
  /\ UNCHANGED ffmpeg
  /\ UNCHANGED <<pageVars, voteVars, perfVars>>

\* await ff.run(...args) of invocation c settles; the engine has read its
\* input when the run began or later.  Then readFile and the reply.
RunDone(c, ran) ==
  /\ c \in 1..Len(calls)
  /\ calls[c].pc = "run"
  /\ LET ff == calls[c].ff
         idle == [engines EXCEPT ![ff].busy = FALSE] IN
       IF ran
         THEN \E input \in {calls[c].src, engines[ff].fs[calls[c].fileName]} :
                LET out == [from |-> input.from, vf |-> calls[c].args[4]] IN
                /\ engines' = [idle EXCEPT ![ff].fs = WriteFile(@, "out.webm", out)]
                /\ posted' = Append(posted, Reply(c, "convert:ok", out, ""))
                /\ calls' = [calls EXCEPT ![c].pc = "done"]
         ELSE Catch(c, calls, idle, "run")
  /\ UNCHANGED <<ffmpeg, ffReady>>
  /\ UNCHANGED <<pageVars, voteVars, perfVars>>

(* --------------- voting page: implementation_plan.md ------------------ *)
\* A video is named by its number: i stands for `video/${i}.webm`.

\* JSON.parse of the stored text, or the fallback when it throws.  A stored
\* text is the set of the members of the object it was made from.
safeParse(json, fallback) ==
  IF json.kind = "text"
    THEN [v \in {m[1] : m \in json.members} |->
            (CHOOSE m \in json.members : m[1] = v)[2]]
    ELSE fallback

\* JSON.parse(null) is null, which readVotes replaces by {}
readVotes ==
  IF voteData = Null THEN [v \in {} |-> 0] ELSE safeParse(voteData, [v \in {} |-> 0])

\* JSON.stringify(obj)
stringify(obj) == [kind |-> "text", members |-> {<<v, obj[v]>> : v \in DOMAIN obj}]

\* the swaps of shuffle from index i down: js[i] is the value of
\* Math.floor(Math.random() * (i + 1)), arr[i + 1] is the code's arr[i]
RECURSIVE shuffleFrom(_, _, _)
shuffleFrom(arr, i, js) ==
  IF i > 0
    THEN shuffleFrom([arr EXCEPT ![i + 1] = arr[js[i] + 1], ![js[i] + 1] = arr[i + 1]],
                     i - 1, js)
    ELSE arr

shuffle(arr, js) == shuffleFrom(arr, Len(arr) - 1, js)

\* btn.disabled = !isSelected && count >= 3, for every vote button of the grid
updateVoteButtonsDisabled(sel, grid) ==
  [v \in DOMAIN grid |->
     [grid[v] EXCEPT !.disabled = (v \notin sel /\ Cardinality(sel) >= selectLimit)]]

\* createCard(videoSrc): the video plays, the vote button is not pressed
createCard == [failed |-> FALSE, disabled |-> FALSE, pressed |-> FALSE]

\* displayRandomVideos, with the list it finds in ALL_VIDEOS and the random
\* numbers its shuffle draws
displayRandomVideos(all, js) ==
  IF Len(all) = 0
    THEN /\ cards' = NoCards
         /\ UNCHANGED <<currentBatch, selectedSet>>
    ELSE LET list == shuffle(all, js)
             batch == SubSeq(list, 1, Min(batchLimit, Len(list))) IN
         /\ currentBatch' = batch
         /\ selectedSet' = {}
         /\ cards' = updateVoteButtonsDisabled({},
                       [v \in {batch[i] : i \in 1..Len(batch)} |-> createCard])

\* the random numbers one shuffle of n entries may draw: js[i] \in 0..i
Randoms(n) == {[i \in 1..(n - 1) |-> 0], [i \in 1..(n - 1) |-> i]}

\* the 'error' event of the video of a card
VideoError(video) ==
  /\ video \in DOMAIN cards
  /\ ~cards[video].failed
  /\ cards' = [cards EXCEPT ![video].failed = TRUE, ![video].disabled = TRUE]
  /\ UNCHANGED <<booted, ALL_VIDEOS, currentBatch, selectedSet, voteData, scans,
                 refreshTimers>>
  /\ UNCHANGED <<pageVars, wasmVars, perfVars>>

\* a handler that adds a selection whatever the size of the set
ClickedNoLimit(video) ==
  LET sel == IF video \in selectedSet THEN selectedSet \ {video}
                                      ELSE selectedSet \cup {video} IN
  /\ selectedSet' = sel
  /\ cards' = updateVoteButtonsDisabled(sel,
                [cards EXCEPT ![video].pressed = video \in sel])

\* the body of the click handler of the grid, for the vote button of video
Clicked(video) ==
  IF video \notin selectedSet /\ Cardinality(selectedSet) >= selectLimit
    THEN UNCHANGED <<selectedSet, cards>>
    ELSE LET sel == IF video \in selectedSet THEN selectedSet \ {video}
                                             ELSE selectedSet \cup {video} IN
         /\ selectedSet' = sel
         /\ cards' = updateVoteButtonsDisabled(sel,
                       [cards EXCEPT ![video].pressed = video \in sel])

\* a click on the vote button of a card reaches the handler of the grid.  The
\* browser dispatches no click of the user on a disabled button; a click that
\* a script dispatches reaches the handler all the same.
VoteClick(video, byUser) ==
  /\ video \in DOMAIN cards
  /\ byUser => ~cards[video].disabled
  /\ Clicked(video)
  /\ UNCHANGED <<booted, ALL_VIDEOS, currentBatch, voteData, scans, refreshTimers>>
  /\ UNCHANGED <<pageVars, wasmVars, perfVars>>

\* votes[v] = (votes[v] || 0) + 1 for every v of sel
Counted(votes, sel) ==
  [v \in DOMAIN votes \cup sel |->
     IF v \in sel THEN (IF v \in DOMAIN votes THEN votes[v] ELSE 0) + 1
                  ELSE votes[v]]

\* a submit handler without the check for an empty selection
SubmittedAlways(maxTimers) ==
  /\ refreshTimers < maxTimers
  /\ voteData' = stringify(Counted(readVotes, selectedSet))
  /\ selectedSet' = {}
  /\ refreshTimers' = refreshTimers + 1

\* the body of the click handler of btnSubmit
Submitted(maxTimers) ==
  IF Cardinality(selectedSet) = 0
    THEN UNCHANGED <<voteData, selectedSet, refreshTimers>>
    ELSE /\ refreshTimers < maxTimers
         /\ voteData' = stringify(Counted(readVotes, selectedSet))
         /\ selectedSet' = {}
         /\ refreshTimers' = refreshTimers + 1

\* a click on btnSubmit
Submit(maxTimers, maxVotes) ==
  /\ \A v \in selectedSet : v \in DOMAIN readVotes => readVotes[v] < maxVotes
  /\ Submitted(maxTimers)
  /\ UNCHANGED <<booted, ALL_VIDEOS, currentBatch, cards, scans>>
  /\ UNCHANGED <<pageVars, wasmVars, perfVars>>

\* setTimeout(() => { displayRandomVideos(); }, 600) of a submit fires
RefreshTimer ==
  /\ refreshTimers > 0
  /\ refreshTimers' = refreshTimers - 1
  /\ \E js \in Randoms(Len(ALL_VIDEOS)) : displayRandomVideos(ALL_VIDEOS, js)
  /\ UNCHANGED <<booted, ALL_VIDEOS, voteData, scans>>
  /\ UNCHANGED <<pageVars, wasmVars, perfVars>>

\* a click on btnReset that the user confirms
Reset ==
  /\ voteData # Null
  /\ voteData' = Null
  /\ UNCHANGED <<booted, ALL_VIDEOS, currentBatch, selectedSet, cards, scans,
                 refreshTimers>>
  /\ UNCHANGED <<pageVars, wasmVars, perfVars>>

\* scanLocalVideos up to its await: the candidates video/1.webm ..
\* video/maxIndex.webm are probed.  The interval handler has taken
\* JSON.stringify(ALL_VIDEOS) before it calls.
ScanStart(caller, maxIndex, maxScans) ==
  /\ Len(scans) < maxScans
  /\ IF caller = "boot" THEN ~booted ELSE booted
  /\ booted' = TRUE
  /\ scans' = Append(scans, [caller |-> caller,
                             candidates |-> [i \in 1..maxIndex |-> i],
                             before |-> IF caller = "interval" THEN ALL_VIDEOS ELSE <<>>])
  /\ UNCHANGED <<ALL_VIDEOS, currentBatch, selectedSet, cards, voteData, refreshTimers>>
  /\ UNCHANGED <<pageVars, wasmVars, perfVars>>

\* probeVideo(src): the first of 'loadeddata', 'error' and the timeout settles
\* the promise
probeVideo(event) == event = "loadeddata"

ProbeEvents == {"loadeddata", "error", "timeout"}

\* filterExistingVideos(paths): the paths whose probe resolved true, in order
filterExistingVideos(paths, events) ==
  SelectSeq(paths, LAMBDA src : probeVideo(events[src]))

\* a scan that takes the result of the probes as it is
ScannedAny(all, exists) == exists

\* scanLocalVideos after its await: the value it leaves in ALL_VIDEOS
Scanned(all, exists) == IF Len(exists) = 0 THEN all ELSE exists

\* the probes of scan k have settled: the rest of scanLocalVideos, and of the
\* handler that called it
ScanDone(k, events) ==
  /\ k \in 1..Len(scans)
  /\ scans' = RemoveAt(scans, k)
  /\ LET all == Scanned(ALL_VIDEOS, filterExistingVideos(scans[k].candidates, events)) IN
     /\ ALL_VIDEOS' = all
     /\ IF scans[k].caller = "interval" /\ scans[k].before = all
          THEN UNCHANGED <<currentBatch, selectedSet, cards>>
          ELSE \E js \in Randoms(Len(all)) : displayRandomVideos(all, js)
  /\ UNCHANGED <<booted, voteData, refreshTimers>>
  /\ UNCHANGED <<pageVars, wasmVars, perfVars>>

(* ----------------------- utils/performance.ts -------------------------- *)
\* a push that never drops a value
PushedAll(values, value) == Append(values, value)

\* values.push(value); if (values.length > 100) values.shift()
Pushed(values, value) ==
  LET pushed == Append(values, value) IN
  IF Len(pushed) > maxPoints THEN Tail(pushed) ELSE pushed

\* this.metrics.get(name) || []
ValuesOf(name) == IF name \in DOMAIN metrics THEN metrics[name] ELSE <<>>

\* PerformanceMonitor.recordMetric(name, value)
recordMetric(name, value) ==
  /\ metrics' = [n \in DOMAIN metrics \cup {name} |->
                   IF n = name THEN Pushed(ValuesOf(name), value) ELSE metrics[n]]
  /\ UNCHANGED <<inThrottle, throttleTimers, funcRuns>>
  /\ UNCHANGED <<pageVars, wasmVars, voteVars>>

\* if (name): the empty string and a missing argument are falsy
Truthy(name) == name \notin {"", "undefined"}

\* PerformanceMonitor.clearMetrics(name?)
clearMetrics(name) ==
  /\ metrics # NoMetrics
  /\ metrics' = IF Truthy(name)
                  THEN [n \in DOMAIN metrics \ {name} |-> metrics[n]]
                  ELSE NoMetrics
  /\ UNCHANGED <<inThrottle, throttleTimers, funcRuns>>
  /\ UNCHANGED <<pageVars, wasmVars, voteVars>>

\* a throttled function that never closes the window
ThrottleCallNoFlag(args, outcome, maxRuns) ==
  /\ Len(funcRuns) < maxRuns
  /\ funcRuns' = Append(funcRuns, args)
  /\ IF outcome = "returns"
       THEN throttleTimers' = throttleTimers + 1
       ELSE UNCHANGED throttleTimers
  /\ UNCHANGED inThrottle
  /\ UNCHANGED metrics
  /\ UNCHANGED <<pageVars, wasmVars, voteVars>>

\* a call of the function that throttle(func, limit) returned; func returns
\* or throws, and a throw leaves the call before inThrottle is set
ThrottleCall(args, outcome, maxRuns) ==
  /\ IF ~inThrottle
       THEN /\ Len(funcRuns) < maxRuns
            /\ funcRuns' = Append(funcRuns, args)
            /\ IF outcome = "returns"
                 THEN /\ inThrottle' = TRUE
                      /\ throttleTimers' = throttleTimers + 1
                 ELSE UNCHANGED <<inThrottle, throttleTimers>>
       ELSE UNCHANGED <<inThrottle, throttleTimers, funcRuns>>
  /\ UNCHANGED metrics
  /\ UNCHANGED <<pageVars, wasmVars, voteVars>>

\* setTimeout(() => inThrottle = false, limit) fires
ThrottleTimer ==
  /\ throttleTimers > 0
  /\ throttleTimers' = throttleTimers - 1
  /\ inThrottle' = FALSE
  /\ UNCHANGED <<metrics, funcRuns>>
  /\ UNCHANGED <<pageVars, wasmVars, voteVars>>

(* --------------------------- specifications ---------------------------- *)
ValidFile == [type |-> "video/mp4", size |-> maxSizeBytes]

ValidBatch(n) == [i \in 1..n |-> ValidFile]

\* the kinds of file the validation rejects: a type that is not allowed, or
\* a size one byte over the limit
InvalidKinds ==
  {[type |-> "image/gif", size |-> sz] : sz \in {maxSizeBytes, maxSizeBytes + 1}}
    \cup {[type |-> ty, size |-> maxSizeBytes + 1] : ty \in allowedTypes}

\* selections of the conversion runs: up to MaxSel files the backend accepts
MainSelections == {ValidBatch(n) : n \in 0..MaxSel}

\* selections of the upload runs: batches at and over the count limit, and
\* short selections holding a file the validation rejects
UploadSelections ==
  {ValidBatch(n) : n \in {0} \cup (maxFiles..(maxFiles + BatchExtra))}
    \cup {<<f>> : f \in InvalidKinds}
    \cup {<<ValidFile, f>> : f \in InvalidKinds}
    \cup {<<f, ValidFile>> : f \in InvalidKinds}

Worker(t) ==
  \/ WorkerClaim(t)
  \/ WorkerProgress(t)
  \/ WorkerFinish(t, "SUCCESS")
  \/ WorkerFinish(t, "FAILED")

Next ==
  \/ \E batch \in MainSelections : SelectFiles(batch, MaxFileIds)
  \/ UploadRespond
  \/ UploadDone
  \/ StartConvert(MaxTasks)
  \/ ConvertRespond
  \/ ConvertDone
  \/ \E t \in 1..MaxTasks : Worker(t)
  \/ \E t \in 1..MaxTasks : Sweep(t)
  \/ PollStart(MaxRounds)
  \/ \E k \in 1..MaxRounds : PollRespond(k)
  \/ \E k \in 1..MaxRounds : PollApply(k)

\* the conversion runs: upload, convert, worker, retention sweep, polling
Spec == Init /\ [][Next]_vars

NextUpload ==
  \/ \E batch \in UploadSelections : SelectFiles(batch, UploadIdCap)
  \/ UploadRespond
  \/ UploadDone
  \/ StartConvert(UploadIdCap)
  \/ ConvertRespond
  \/ ConvertDone

\* the upload runs: selection, upload and convert request, no worker
SpecUpload == Init /\ [][NextUpload]_vars

\* the worker without its progress reports
LiveWorker(t) ==
  \/ WorkerClaim(t)
  \/ WorkerFinish(t, "SUCCESS")
  \/ WorkerFinish(t, "FAILED")

NextLive ==
  \/ \E batch \in MainSelections : SelectFiles(batch, MaxFileIds)
  \/ UploadRespond
  \/ UploadDone
  \/ StartConvert(MaxTasks)
  \/ ConvertRespond
  \/ ConvertDone
  \/ \E t \in 1..MaxTasks : LiveWorker(t)
  \/ \E t \in 1..MaxTasks : Sweep(t)
  \/ PollStart(LiveRounds)
  \/ \E k \in 1..LiveRounds : PollRespond(k)
  \/ \E k \in 1..LiveRounds : PollApply(k)

\* the fair runs: the interval timer keeps firing, every request is answered,
\* every answer is handled, and the worker keeps working on every task
LiveSpec ==
  /\ Init
  /\ [][NextLive]_vars
  /\ WF_vars(PollStart(LiveRounds))
  /\ \A k \in 1..LiveRounds : WF_vars(PollRespond(k)) /\ WF_vars(PollApply(k))
  /\ \A t \in 1..MaxTasks : WF_vars(LiveWorker(t))
  /\ WF_vars(UploadRespond) /\ WF_vars(UploadDone)
  /\ WF_vars(ConvertRespond) /\ WF_vars(ConvertDone)

NextStatus ==
  \/ \E batch \in MainSelections : SelectFiles(batch, StatusTasks)
  \/ UploadRespond
  \/ UploadDone
  \/ StartConvert(StatusTasks)
  \/ ConvertRespond
  \/ ConvertDone
  \/ \E t \in 1..StatusTasks : LiveWorker(t)
  \/ \E t \in 1..StatusTasks : Sweep(t)
  \/ PollStart(MaxRounds)
  \/ \E k \in 1..MaxRounds : PollRespond(k)
  \/ \E k \in 1..MaxRounds : PollApply(k)

\* the status runs: conversion, retention sweep and status rounds that
\* overlap
SpecStatus == Init /\ [][NextStatus]_vars

\* the interval fires after the round before it has been answered and handled
PollInTurn == rounds = <<>> /\ PollStart(LiveRounds)

NextDownload ==
  \/ \E batch \in MainSelections : SelectFiles(batch, DownloadTasks)
  \/ UploadRespond
  \/ UploadDone
  \/ StartConvert(DownloadTasks)
  \/ ConvertRespond
  \/ ConvertDone
  \/ \E t \in 1..DownloadTasks : LiveWorker(t)
  \/ \E t \in 1..DownloadTasks : Sweep(t)
  \/ PollInTurn
  \/ \E k \in 1..LiveRounds : PollRespond(k)
  \/ \E k \in 1..LiveRounds : PollApply(k)
  \/ BatchDownload
  \/ DownloadRespond
  \/ DownloadDone

\* the download runs: conversion, retention sweep, status rounds one after
\* the other, batch download
SpecDownload == Init /\ [][NextDownload]_vars

NextRemove ==
  \/ \E batch \in MainSelections : SelectFiles(batch, RemoveTasks)
  \/ UploadRespond
  \/ UploadDone
  \/ StartConvert(RemoveTasks)
  \/ ConvertRespond
  \/ ConvertDone
  \/ \E t \in 1..RemoveTasks : LiveWorker(t)
  \/ PollInTurn
  \/ \E k \in 1..LiveRounds : PollRespond(k)
  \/ \E k \in 1..LiveRounds : PollApply(k)
  \/ \E fileId \in 1..RemoveTasks : RemoveFile(fileId)
  \/ ClearAll

\* the removal runs: conversion and status rounds while the user removes
\* files from the list or clears it
SpecRemove == Init /\ [][NextRemove]_vars

\* the smallest folder in which the selection limit leaves a card out
VoteVideos == selectLimit + 1

\* every candidate of a scan loads
AllLoad(n) == [i \in 1..n |-> "loadeddata"]

NextVote ==
  \/ ScanStart("boot", VoteVideos, 1)
  \/ ScanDone(1, AllLoad(VoteVideos))
  \/ \E video \in 1..VoteVideos, byUser \in BOOLEAN : VoteClick(video, byUser)
  \/ Submit(VoteTimers, VoteCount)
  \/ RefreshTimer
  \/ Reset

\* the voting runs: the page starts, the visitor selects, submits and resets
SpecVote == Init /\ [][NextVote]_vars

NextCards ==
  \/ ScanStart("boot", CardVideos, 1)
  \/ ScanDone(1, AllLoad(CardVideos))
  \/ \E video \in 1..CardVideos : VideoError(video)
  \/ \E video \in 1..CardVideos, byUser \in BOOLEAN : VoteClick(video, byUser)
  \/ Submit(VoteTimers, VoteCount)
  \/ RefreshTimer

\* the card runs: videos of the grid fail to load while the visitor votes
SpecCards == Init /\ [][NextCards]_vars

\* what the probes of one scan of n candidates meet in the scan runs: every
\* candidate loads or fails, or every probe runs into its timeout
ScanEvents(n) ==
  [1..n -> {"loadeddata", "error"}] \cup {[i \in 1..n |-> "timeout"]}

NextScan ==
  \/ \E caller \in {"boot", "refresh", "interval"} : ScanStart(caller, ScanIndex, MaxScans)
  \/ \E k \in 1..MaxScans, events \in ScanEvents(ScanIndex) : ScanDone(k, events)

\* the scan runs: the start of the page, the refresh button and the interval
\* scan the folder while videos come and go
SpecScan == Init /\ [][NextScan]_vars

\* the metrics of the monitor runs; the empty string is a name as well
MetricNames == {"", "api_call"}

\* the value a metric records next in the monitor runs: durations that grow
\* by one, so that every value of a list tells when it was recorded
NextValue(name) ==
  IF Len(ValuesOf(name)) = 0 THEN 1 ELSE ValuesOf(name)[Len(ValuesOf(name))] + 1

NextMonitor ==
  \/ \E name \in MetricNames :
       /\ NextValue(name) <= maxPoints + PerfExtra
       /\ recordMetric(name, NextValue(name))
  \/ \E name \in MetricNames \cup {"undefined"} : clearMetrics(name)

\* the monitor runs: metrics are recorded beyond the number of values kept,
\* and cleared
SpecMonitor == Init /\ [][NextMonitor]_vars

ThrottleArgs == {"a", "b"}

NextThrottle ==
  \/ \E args \in ThrottleArgs, outcome \in {"returns", "throws"} :
       ThrottleCall(args, outcome, ThrottleRuns)
  \/ ThrottleTimer

\* the throttle runs: calls of one throttled function and its timer
SpecThrottle == Init /\ [][NextThrottle]_vars

LeaseWorker(t) ==
  \/ LeaseClaim(t)
  \/ LeaseProgress(t)
  \/ LeaseFinish(t, "SUCCESS")
  \/ LeaseFinish(t, "FAILED")

NextLease ==
  \/ \E batch \in MainSelections : SelectFiles(batch, LeaseTasks)
  \/ UploadRespond
  \/ UploadDone
  \/ StartConvert(LeaseTasks)
  \/ ConvertRespond
  \/ ConvertDone
  \/ \E t \in 1..LeaseTasks : LeaseWorker(t)
  \/ \E t \in 1..LeaseTasks : Crash(t)
  \/ \E t \in 1..LeaseTasks : LeaseExpire(t)
  \/ \E t \in 1..LeaseTasks : LeaseSweep(t)

\* the lease runs: workers that crash, and the supervisor; a live worker
\* keeps working, deadlines pass and the supervisor keeps sweeping
LeaseSpec ==
  /\ Init
  /\ [][NextLease]_vars
  /\ \A t \in 1..LeaseTasks :
       /\ WF_vars(LeaseWorker(t))
       /\ WF_vars(LeaseExpire(t))
       /\ WF_vars(LeaseSweep(t))

\* convertOptions as App starts with them
DefaultSettings ==
  [color |-> Black, tolerance |-> 10, feather |-> 5, removeWatermark |-> TRUE]

With(obj, f, v) == [x \in DOMAIN obj \cup {f} |-> IF x = f THEN v ELSE obj[x]]

Without(obj, f) == [x \in DOMAIN obj \ {f} |-> obj[x]]

\* tolerance values at and beyond the ends of 0..100
Tolerances == {-1, 0, 1, 100, 101}

\* feather values, in tenths, at and beyond the ends of 0..10
Feathers == {-1, 0, 100, 101}

\* 00ff00 without '#', and two strings the pattern does not match
Colors ==
  {[hash |-> FALSE, digits |-> <<0, 0, 15, 15, 0, 0>>],
   [hash |-> TRUE, digits |-> <<15, 15, 15>>],
   [hash |-> FALSE, digits |-> <<NotHex, 14, 13>>]}

\* the options of the mapper runs: the defaults with one option changed or
\* left out
MapperSettings ==
  {DefaultSettings, Without(DefaultSettings, "tolerance"),
   With(DefaultSettings, "removeWatermark", FALSE)}
    \cup {With(DefaultSettings, "tolerance", t) : t \in Tolerances}
    \cup {With(DefaultSettings, "feather", f) : f \in Feathers}
    \cup {With(DefaultSettings, "color", c) : c \in Colors}

ConvertData(payload) == [type |-> "convert", payload |-> payload]

MapperMessages ==
  {ConvertData([fileName |-> "a.mp4", settings |-> s]) : s \in MapperSettings}
    \cup {ConvertData([settings |-> DefaultSettings]),
          ConvertData([fileName |-> "a.mp4"])}

\* the messages of the worker runs: the two requests, a convert without
\* payload, a message of another type and one without data
WorkerMessages ==
  {[type |-> "probe"],
   ConvertData([fileName |-> "a.mp4", settings |-> DefaultSettings]),
   ConvertData([settings |-> DefaultSettings]),
   [type |-> "convert"],
   [type |-> "ping"],
   [f \in {} |-> 0]}

NextMapper ==
  \/ \E data \in MapperMessages : \E imported \in BOOLEAN : OnMessage(data, imported, MaxCalls, 1)
  \/ \E c \in 1..MaxCalls : \E loaded \in BOOLEAN : LoadDone(c, loaded)
  \/ \E c \in 1..MaxCalls : \E ran \in BOOLEAN : RunDone(c, ran)

\* the mapper runs: the worker handles one convert message after the other,
\* over the option values
SpecMapper == Init /\ [][NextMapper]_vars

NextWorker ==
  \/ \E data \in WorkerMessages : \E imported \in BOOLEAN :
       OnMessage(data, imported, MaxCalls, MaxCalls)
  \/ \E c \in 1..MaxCalls : \E loaded \in BOOLEAN : LoadDone(c, loaded)
  \/ \E c \in 1..MaxCalls : \E ran \in BOOLEAN : RunDone(c, ran)

\* the worker runs: messages arrive while earlier ones are being handled
SpecWorker == Init /\ [][NextWorker]_vars

\* the worker runs in which every await settles
LiveWorkerSpec ==
  /\ SpecWorker
  /\ \A c \in 1..MaxCalls :
       WF_vars(\E loaded \in BOOLEAN : LoadDone(c, loaded))
         /\ WF_vars(\E ran \in BOOLEAN : RunDone(c, ran))

(* ------------------------------ claims --------------------------------- *)
\* the client's record of task t, if it holds one
Tracked(t) == \E i \in 1..Len(files) : files[i].taskId = t

ObservedTerminal(t) ==
  \E i \in 1..Len(files) : files[i].taskId = t /\ Terminal(files[i].status)

\* C1: across convert requests and poll responses, the status recorded for a
\* task only moves forward along PENDING -> RUNNING -> {SUCCESS | FAILED}.
C1_StatusNeverRegresses ==
  [][\A i \in 1..Len(files) : \A j \in 1..Len(files') :
       (files[i].taskId # 0 /\ files'[j].taskId = files[i].taskId)
         => Rank(files'[j].status) >= Rank(files[i].status)]_vars

\* C2: the statuses observed for a task never show a terminal status directly
\* after PENDING, without RUNNING in between.
C2_NoTerminalDirectlyAfterPending ==
  [][\A i \in 1..Len(files) : \A j \in 1..Len(files') :
       (/\ files[i].taskId # 0
        /\ files'[j].taskId = files[i].taskId
        /\ files[i].status = "PENDING")
         => ~Terminal(files'[j].status)]_vars

\* C3: no convert request is ever issued for a file that already has a
\* PENDING or RUNNING task.
C3_NoConvertForActiveFile ==
  convertReq.phase = "sent"
    => \A i \in 1..Len(convertReq.fileIds) : ~HasActiveTask(convertReq.fileIds[i])

\* C4: under fair polling, every task the client tracks is eventually seen in
\* a terminal status (or is no longer tracked, or has itself expired),
\* whatever happens to the other tasks of the round.
C4_EventuallyTerminal ==
  \A t \in 1..MaxTasks :
    [](Tracked(t) => <>(ObservedTerminal(t) \/ ~Tracked(t) \/ ~TaskFound(t)))

\* C5: the progress recorded for a task never decreases.
C5_ProgressNeverDecreases ==
  [][\A i \in 1..Len(files) : \A j \in 1..Len(files') :
       (files[i].taskId # 0 /\ files'[j].taskId = files[i].taskId)
         => files'[j].progress >= files[i].progress]_vars

\* C6: a record that carries a resultUrl has status SUCCESS.
C6_ResultOnlyOnSuccess ==
  \A i \in 1..Len(files) : files[i].resultUrl # 0 => files[i].status = "SUCCESS"

\* C7: a record that carries an error has status FAILED.
C7_ErrorOnlyOnFailed ==
  \A i \in 1..Len(files) : files[i].error # 0 => files[i].status = "FAILED"

C9_InvalidNeverUploaded ==
  uploadReq.phase = "sent"
    => \A i \in 1..Len(uploadReq.sel) :
         validateFileType(uploadReq.sel[i]) /\ validateFileSize(uploadReq.sel[i], maxSizeMB)

\* C10: a status round over known and unknown task ids delivers the snapshots
\* of the known ids instead of failing as a whole.
C10_PartialBatchStatus ==
  [][\A k \in 1..Len(rounds) :
       (PollRespond(k) /\ \E t \in rounds[k].ids : TaskFound(t))
         => /\ Len(rounds') = Len(rounds)
            /\ rounds'[k].phase = "resolved"
            /\ {r.taskId : r \in rounds'[k].res} = {t \in rounds[k].ids : TaskFound(t)}]_vars

Built(c) == calls[c].args # <<>>

\* the options invocation c was given
SettingsOf(c) ==
  IF Has(calls[c].data, "payload") /\ Has(calls[c].data.payload, "settings")
    THEN calls[c].data.payload.settings
    ELSE [f \in {} |-> 0]

\* the filter chain invocation c handed to the engine
ChainOf(c) == calls[c].args[4]

ColorKeyStages(c) == {i \in 1..Len(ChainOf(c)) : ChainOf(c)[i].filter = "colorkey"}

\* C12: for a whole tolerance in 0..100 the similarity of every chroma-key
\* stage is tolerance/100 (in hundredths: the tolerance itself), 0 and 100
\* included.
C12_SimilarityIsTolerance ==
  \A c \in 1..Len(calls) :
    (Built(c) /\ Has(SettingsOf(c), "tolerance") /\ SettingsOf(c).tolerance \in 0..100)
      => \A i \in ColorKeyStages(c) : ChainOf(c)[i].similarity = SettingsOf(c).tolerance

\* C13: for a feather in 0..10 the blend of every chroma-key stage is
\* feather/10 (feather in tenths and blend in hundredths: the same number).
C13_BlendIsFeather ==
  \A c \in 1..Len(calls) :
    (Built(c) /\ Has(SettingsOf(c), "feather") /\ SettingsOf(c).feather \in 0..100)
      => \A i \in ColorKeyStages(c) : ChainOf(c)[i].blend = SettingsOf(c).feather

\* the numeric options of s that are out of range
OutOfRange(s) ==
  {f \in {"tolerance", "feather"} : Has(s, f) /\ s[f] \notin 0..100}

\* C14: a request with an out-of-range numeric option builds no filter chain
\* and is answered with an error that names an offending field.
C14_OutOfRangeRejected ==
  \A c \in 1..Len(calls) :
    OutOfRange(SettingsOf(c)) # {}
      => /\ ~Built(c)
         /\ calls[c].pc = "done"
              => \E i \in 1..Len(posted) :
                   /\ posted[i].to = c
                   /\ posted[i].type = "error"
                   /\ posted[i].message \in OutOfRange(SettingsOf(c))

\* C15: with removeWatermark true the chain holds a watermark-mask (delogo)
\* stage, placed before every chroma-key stage.
C15_MaskBeforeColorKey ==
  \A c \in 1..Len(calls) :
    (Built(c) /\ Has(SettingsOf(c), "removeWatermark") /\ SettingsOf(c).removeWatermark)
      => \E m \in 1..Len(ChainOf(c)) :
           /\ ChainOf(c)[m].filter = "delogo"
           /\ \A i \in ColorKeyStages(c) : m < i

C17_FailedOnlyAfterRetries ==
  \A i \in 1..Len(posted) :
    (posted[i].type = "error" /\ posted[i].message = "run")
      => calls[posted[i].to].runs = 3

\* invocation c handles a 'probe' or a 'convert' message
Requested(c) == Has(calls[c].data, "type") /\ calls[c].data.type \in {"probe", "convert"}

RepliesTo(c) == {i \in 1..Len(posted) : posted[i].to = c}

\* C18: every 'probe' or 'convert' message gets exactly one reply, its ':ok'
\* message or an 'error': never two, never another type, one once the handler
\* has ended, and the handler ends.
C18_ExactlyOneReply ==
  /\ [](\A c \in 1..Len(calls) :
          Requested(c)
            => /\ Cardinality(RepliesTo(c)) <= 1
               /\ \A i \in RepliesTo(c) :
                    posted[i].type \in {"error", IF calls[c].data.type = "probe"
                                                   THEN "probe:ok" ELSE "convert:ok"}
               /\ calls[c].pc = "done" => Cardinality(RepliesTo(c)) = 1)
  /\ \A c \in 1..MaxCalls :
       []((c <= Len(calls) /\ Requested(c)) => <>(RepliesTo(c) # {}))

\* a convert answered with its output and another request answered with an
\* error
C18_Witness ==
  /\ \E i \in 1..Len(posted) : posted[i].type = "convert:ok"
  /\ \E i \in 1..Len(posted) : posted[i].type = "error"
  /\ \A c \in 1..Len(calls) : calls[c].pc = "done"

\* C20: the task ids a batch download sends are the taskIds of the files
\* whose status is SUCCESS when the button is clicked, one for each, and a
\* request is sent only if there is such a file.
C20_DownloadOnlySuccess ==
  [][(downloadReq'.phase = "sent" /\ downloadReq.phase # "sent")
       => LET ids == downloadReq'.taskIds
              ok == {i \in 1..Len(files) : files[i].status = "SUCCESS"} IN
          /\ ok # {}
          /\ Len(ids) = Cardinality(ok)
          /\ {ids[i] : i \in 1..Len(ids)} = {files[i].taskId : i \in ok}
          /\ \A i \in 1..Len(ids) : ids[i] # 0]_vars

\* a download request is out for the one file in SUCCESS, next to a file
\* whose task is not in SUCCESS
C20_Witness ==
  /\ downloadReq.phase = "sent"
  /\ Len(downloadReq.taskIds) = 1
  /\ \E i \in 1..Len(files) : files[i].taskId # 0 /\ files[i].status # "SUCCESS"

\* the status of task t in the store, if the store holds it
StatusOf(t) == IF t \in 1..Len(store) THEN store[t].status ELSE "NONE"

\* C19: a task whose worker crashed while it was RUNNING is requeued by the
\* supervisory sweep once for each crash (never more, and the one requeue
\* comes), and it reaches SUCCESS or FAILED in the end.
C19_RequeuedOncePerCrash ==
  /\ [](\A t \in 1..Len(store) :
          /\ LeaseOf(t).worker = "crashed" => LeaseOf(t).requeues + 1 = LeaseOf(t).crashes
          /\ LeaseOf(t).worker # "crashed" => LeaseOf(t).requeues = LeaseOf(t).crashes)
  /\ \A t \in 1..LeaseTasks :
       []((t <= Len(store) /\ LeaseOf(t).worker = "crashed")
            => <>(LeaseOf(t).worker # "crashed" /\ StatusOf(t) = "PENDING"))
  /\ \A t \in 1..LeaseTasks :
       []((t <= Len(store) /\ LeaseOf(t).crashes > 0) => <>Terminal(StatusOf(t)))

\* a task has finished after its worker crashed MaxCrashes times and the
\* sweep requeued it as often
C19_Witness ==
  \E t \in 1..Len(store) :
    /\ Terminal(store[t].status)
    /\ LeaseOf(t).crashes = MaxCrashes
    /\ LeaseOf(t).requeues = MaxCrashes

\* C22: every 'convert:ok' reply carries the output made from the input of
\* its own request, also when a second 'convert' arrives before the first
\* has finished.
C22_OwnOutput ==
  \A i \in 1..Len(posted) :
    posted[i].type = "convert:ok" => posted[i].buffer.from = posted[i].to

\* C23: the worker creates at most one engine instance, and while ffReady is
\* true the ffmpeg variable holds an instance that is loaded.
C23_OneEngine ==
  /\ Len(engines) <= 1
  /\ ffReady => (ffmpeg # 0 /\ engines[ffmpeg].loaded)

FileIdsOf(fs) == [i \in 1..Len(fs) |-> fs[i].fileId]

\* C21: every listed file that carries a taskId carries the id of the task
\* that was created for its own fileId, also when files were removed, cleared
\* or replaced while the convert request was in flight.
C21_TaskOfOwnFile ==
  \A i \in 1..Len(files) :
    files[i].taskId # 0 =>
      /\ files[i].taskId \in 1..Len(store)
      /\ store[files[i].taskId].fileId = files[i].fileId

Matched(file, statusResults) == \E s \in statusResults : s.taskId = file.taskId

\* C24: applying a status-poll response adds no entry and brings no removed
\* file back (the list keeps its fileIds, in order), and leaves every entry
\* without a matching taskId as it was.
C24_PollKeepsList ==
  [][\A k \in 1..Len(rounds) :
       PollApply(k) =>
         /\ FileIdsOf(files') = FileIdsOf(files)
         /\ \A i \in 1..Len(files) :
              ~Matched(files[i], rounds[k].res) => files'[i] = files[i]]_vars

\* a response is about to be applied that reports a task no listed file holds
\* any more, while another file is listed whose taskId the response does not
\* report
C24_Witness ==
  \E k \in 1..Len(rounds) :
    /\ rounds[k].phase = "resolved"
    /\ \E s \in rounds[k].res : \A i \in 1..Len(files) : files[i].taskId # s.taskId
    /\ \E i \in 1..Len(files) :
         /\ ~Matched(files[i], rounds[k].res)
         /\ \E s \in rounds[k].res : s.status # files[i].status

\* C25: the selection never holds more than 3 videos; a click on the vote
\* button of an unselected video while 3 are selected changes nothing, and a
\* click on the button of a selected video removes it from the selection.
C25_AtMostThreeSelected ==
  /\ [](Cardinality(selectedSet) <= 3)
  /\ [][\A video \in DOMAIN cards :
          (\E byUser \in BOOLEAN : VoteClick(video, byUser)) =>
            /\ (video \notin selectedSet /\ Cardinality(selectedSet) = 3)
                 => UNCHANGED vars
            /\ video \in selectedSet => selectedSet' = selectedSet \ {video}]_vars

\* three videos are selected and the card of a fourth is in the grid
C25_Witness ==
  /\ Cardinality(selectedSet) = 3
  /\ \E video \in DOMAIN cards : video \notin selectedSet

VotesOf(votes, v) == IF v \in DOMAIN votes THEN votes[v] ELSE 0

C27_FailedStaysUnvotable ==
  /\ [](\A video \in DOMAIN cards : cards[video].failed => cards[video].disabled)
  /\ [][\A video \in DOMAIN cards :
          (cards[video].failed /\ video \notin selectedSet) =>
            /\ video \notin selectedSet'
            /\ VotesOf(readVotes', video) <= VotesOf(readVotes, video)]_vars

Loadable(candidates, events) ==
  {candidates[i] : i \in {j \in 1..Len(candidates) : events[j] = "loadeddata"}}

\* C28: no step puts an empty list in the place of a non-empty ALL_VIDEOS; a
\* scan that finds no loadable candidate keeps ALL_VIDEOS, any other scan
\* leaves exactly the loadable candidates in it, in the order of the
\* candidates.
C28_ScanKeepsList ==
  /\ [][Len(ALL_VIDEOS) > 0 => Len(ALL_VIDEOS') > 0]_vars
  /\ [][\A k \in 1..Len(scans) :
          \A events \in ScanEvents(Len(scans[k].candidates)) :
            ScanDone(k, events) =>
              LET found == Loadable(scans[k].candidates, events) IN
              IF found = {}
                THEN ALL_VIDEOS' = ALL_VIDEOS
                ELSE /\ {ALL_VIDEOS'[i] : i \in 1..Len(ALL_VIDEOS')} = found
                     /\ \A i \in 1..(Len(ALL_VIDEOS') - 1) :
                          ALL_VIDEOS'[i] < ALL_VIDEOS'[i + 1]]_vars

\* videos are listed while two scans are in flight, one of which began when
\* the list was different
C28_Witness ==
  /\ Len(ALL_VIDEOS) > 0
  /\ Len(scans) > 1
  /\ \E k \in 1..Len(scans) : scans[k].caller = "interval" /\ scans[k].before # ALL_VIDEOS

\* C29: every metric keeps at most 100 values; a recordMetric call leaves in
\* the list of its metric the last 100 values recorded for it, in recording
\* order, and leaves the list of every other metric unchanged.
C29_LastHundred ==
  /\ [](\A name \in DOMAIN metrics : Len(metrics[name]) <= 100)
  /\ [][\A name \in MetricNames :
          recordMetric(name, NextValue(name)) =>
            LET all == Append(ValuesOf(name), NextValue(name))
                kept == metrics'[name]
            IN /\ DOMAIN metrics' = DOMAIN metrics \cup {name}
               /\ Len(kept) = Min(Len(all), 100)
               /\ \A i \in 1..Len(kept) : kept[i] = all[Len(all) - Len(kept) + i]
               /\ \A other \in DOMAIN metrics \ {name} :
                    metrics'[other] = metrics[other]]_vars

\* a metric holds 100 values of which the oldest has been dropped, next to
\* another metric that holds values
C29_Witness ==
  \E name \in DOMAIN metrics :
    /\ Len(metrics[name]) = 100
    /\ metrics[name][1] > 1
    /\ \E other \in DOMAIN metrics \ {name} : Len(metrics[other]) > 0

\* C30: the wrapped function runs at most once per window: a call made while
\* no window is open (the first call, and the first one after the timer has
\* fired) runs it with the arguments of the call, a call made while the timer
\* of a window is pending runs nothing, and no second window opens meanwhile.
C30_OncePerWindow ==
  /\ [](throttleTimers <= 1)
  /\ [][\A args \in ThrottleArgs, outcome \in {"returns", "throws"} :
          ThrottleCall(args, outcome, ThrottleRuns) =>
            IF throttleTimers > 0
              THEN funcRuns' = funcRuns
              ELSE funcRuns' = Append(funcRuns, args)]_vars
  /\ [][(throttleTimers > 0 /\ throttleTimers' > 0) => funcRuns' = funcRuns]_vars

\* the function has run, its window is open, and it can run again
C30_Witness ==
  /\ throttleTimers = 1
  /\ Len(funcRuns) \in 2..(ThrottleRuns - 1)

====
